---- MODULE Spec2Model ----
(***************************************************************************)
(* A model of the Neander virtual machine of rust-neander: the sixteen     *)
(* instruction descriptors and their transition functions                  *)
(* (src/state/operator.rs), the opcode decoder get_operator, and the       *)
(* fetch-execute loop that main drives (State::new, State::start).         *)
(***************************************************************************)
EXTENDS Integers, Sequences, FiniteSets, TLC

VARIABLES
    state,            \* the current State value: pc, ac, memory, inputs, output, halt
    program,          \* the byte slice handed to State::new
    given_inputs,     \* the input ports supplied at construction
    overflow_checks,  \* build profile: TRUE = debug (u8 overflow panics), FALSE = release (wraps)
    ctl,              \* where the driver is: "running" | "returned" | "panicked" | "rejected"
    panic,            \* the panic message, "" while none
    runs,             \* how many times start() has been called
    last,             \* history: the last transition applied (mnemonic, opcode, argument, state
                      \* before) and, as op2 and from2, the one applied before it
    steps,            \* history: number of transitions applied (saturates at MaxSteps)
    emitted           \* history: the values OUT has emitted, oldest first (last MaxTrace kept)

vars == <<state, program, given_inputs, overflow_checks, ctl, panic, runs, last, steps, emitted>>

----------------------------------------------------------------------------
(* Sizes *)

\* memory: [u8; 256], indexed by `argument as usize`
MemSize == 256
\* output: [u8; 40]
OutputSize == 40
\* inputs: the fixed-size array of input ports read by IN (State's declaration is not
\* in operator.rs; two ports are modelled, a port index beyond them panics)
InputsLen == 2

\* how many times the driver calls start()
MaxRuns == 2
\* saturation point of the transition counter
MaxSteps == 300
\* how many emitted values the history variable keeps
MaxTrace == 42

Byte == 0 .. 255

----------------------------------------------------------------------------
(* u8 operators *)

RECURSIVE BitAnd(_, _)
\* u8 & u8
BitAnd(a, b) ==
    IF a = 0 \/ b = 0 THEN 0
    ELSE (a % 2) * (b % 2) + 2 * BitAnd(a \div 2, b \div 2)

RECURSIVE BitOr(_, _)
\* u8 | u8
BitOr(a, b) ==
    IF a = 0 THEN b
    ELSE IF b = 0 THEN a
    ELSE (IF a % 2 = 1 \/ b % 2 = 1 THEN 1 ELSE 0) + 2 * BitOr(a \div 2, b \div 2)

RECURSIVE FlipBits(_, _)
\* the low n bits of a, each complemented
FlipBits(a, n) ==
    IF n = 0 THEN 0
    ELSE (1 - (a % 2)) + 2 * FlipBits(a \div 2, n - 1)

\* !u8
BitNot(a) == FlipBits(a, 8)

\* a panicking evaluation: the value a run "returns" when it unwinds
Panic(msg) == [panic |-> msg]

IsPanic(r) == "panic" \in DOMAIN r

----------------------------------------------------------------------------
(* The transition functions: Operator.run, fn(&State, u8) -> State *)

\* fault variant of NOP: the program counter is an 8-bit register that wraps
RunNOP_wrap(s, argument) == [s EXCEPT !.pc = (s.pc + 1) % 256]

RunNOP(s, argument) == [s EXCEPT !.pc = s.pc + 1]

\* fault variant of STA: the store is lost
RunSTA_nostore(s, argument) == [s EXCEPT !.pc = s.pc + 2]

\* fault variant of STA: the store also clears the accumulator
RunSTA_clobber(s, argument) ==
    [s EXCEPT !.pc = s.pc + 2, !.ac = 0,
              !.memory = [s.memory EXCEPT ![argument] = s.ac]]

RunSTA(s, argument) ==
    [s EXCEPT !.pc = s.pc + 2, !.memory = [s.memory EXCEPT ![argument] = s.ac]]

\* fault variant of LDA: steps over the opcode only
RunLDA_short(s, argument) == [s EXCEPT !.pc = s.pc + 1, !.ac = s.memory[argument]]

RunLDA(s, argument) == [s EXCEPT !.pc = s.pc + 2, !.ac = s.memory[argument]]

\* fault variant of ADD: subtracts the memory value
RunADD_sub(s, argument) ==
    LET memory_value == s.memory[argument]
    IN  [s EXCEPT !.pc = s.pc + 2, !.ac = (s.ac - memory_value) % 256]

RunADD(s, argument) ==
    LET memory_value == s.memory[argument]
        sum == s.ac + memory_value
    IN  IF sum > 255 /\ overflow_checks
        THEN Panic("attempt to add with overflow")
        ELSE [s EXCEPT !.pc = s.pc + 2, !.ac = sum % 256]

RunOR(s, argument) ==
    LET memory_value == s.memory[argument]
    IN  [s EXCEPT !.pc = s.pc + 2, !.ac = BitOr(memory_value, s.ac)]

RunAND(s, argument) ==
    LET memory_value == s.memory[argument]
    IN  [s EXCEPT !.pc = s.pc + 2, !.ac = BitAnd(memory_value, s.ac)]

\* fault variant of NOT: complements the low seven bits only
RunNOT_7bit(s, argument) == [s EXCEPT !.pc = s.pc + 1, !.ac = FlipBits(s.ac, 7)]

RunNOT(s, argument) == [s EXCEPT !.pc = s.pc + 1, !.ac = BitNot(s.ac)]

RunSUB(s, argument) ==
    LET memory_value == s.memory[argument]
        diff == s.ac - memory_value
    IN  IF diff < 0 /\ overflow_checks
        THEN Panic("attempt to subtract with overflow")
        ELSE [s EXCEPT !.pc = s.pc + 2, !.ac = diff % 256]

\* fault variant of JMP: the argument is an offset from the current address
RunJMP_relative(s, argument) == [s EXCEPT !.pc = s.pc + argument]

\* fault variant of JMP: the jump falls through to the next instruction
RunJMP_next(s, argument) == [s EXCEPT !.pc = s.pc + 2]

RunJMP(s, argument) == [s EXCEPT !.pc = argument]

\* fault variant of JN: tests the sign bit of the accumulator
RunJN_signbit(s, argument) ==
    LET next_pc == IF s.ac >= 128 THEN argument ELSE s.pc + 2
    IN  [s EXCEPT !.pc = next_pc]

RunJN(s, argument) ==
    LET next_pc == IF s.ac >= 64 THEN argument ELSE s.pc + 2
    IN  [s EXCEPT !.pc = next_pc]

\* fault variant of JZ: the test is inverted
RunJZ_inverted(s, argument) ==
    LET next_pc == IF s.ac # 0 THEN argument ELSE s.pc + 2
    IN  [s EXCEPT !.pc = next_pc]

RunJZ(s, argument) ==
    LET next_pc == IF s.ac = 0 THEN argument ELSE s.pc + 2
    IN  [s EXCEPT !.pc = next_pc]

\* fault variant of JNZ: the branch is never taken
RunJNZ_fallthrough(s, argument) == [s EXCEPT !.pc = s.pc + 2]

RunJNZ(s, argument) ==
    LET next_pc == IF s.ac # 0 THEN argument ELSE s.pc + 2
    IN  [s EXCEPT !.pc = next_pc]

\* fault variant of IN: reading a port consumes its value
RunIN_consume(s, argument) ==
    IF argument >= InputsLen
    THEN Panic("index out of bounds")
    ELSE [s EXCEPT !.pc = s.pc + 2, !.ac = s.inputs[argument],
                   !.inputs = [s.inputs EXCEPT ![argument] = 0]]

RunIN(s, argument) ==
    IF argument >= InputsLen
    THEN Panic("index out of bounds")
    ELSE [s EXCEPT !.pc = s.pc + 2, !.ac = s.inputs[argument]]

\* fault variant of OUT: slot 0 is overwritten and nothing is shifted
RunOUT_noshift(s, argument) ==
    [s EXCEPT !.pc = s.pc + 1, !.output = [s.output EXCEPT ![0] = s.ac]]

RunOUT(s, argument) ==
    LET output == [i \in 0 .. OutputSize - 1 |->
                      IF i = 0 THEN s.ac ELSE s.output[i - 1]]
    IN  [s EXCEPT !.pc = s.pc + 1, !.output = output]

\* fault variant of LDI: treats the argument as an address
RunLDI_load(s, argument) == [s EXCEPT !.pc = s.pc + 2, !.ac = s.memory[argument]]

RunLDI(s, argument) == [s EXCEPT !.pc = s.pc + 2, !.ac = argument]

\* fault variant of HLT: the program counter stays on the HLT
RunHLT_stay(s, argument) == [s EXCEPT !.halt = TRUE]

RunHLT(s, argument) == [s EXCEPT !.pc = s.pc + 1, !.halt = TRUE]

----------------------------------------------------------------------------
(* The instruction descriptors: mnemonic and requires_arg *)

NOP == [mnemonic |-> "NOP", requires_arg |-> FALSE]
STA == [mnemonic |-> "STA", requires_arg |-> TRUE]
LDA == [mnemonic |-> "LDA", requires_arg |-> TRUE]
ADD == [mnemonic |-> "ADD", requires_arg |-> TRUE]
OR  == [mnemonic |-> "OR",  requires_arg |-> TRUE]
AND == [mnemonic |-> "AND", requires_arg |-> TRUE]
NOT == [mnemonic |-> "NOT", requires_arg |-> FALSE]
SUB == [mnemonic |-> "SUB", requires_arg |-> TRUE]
JMP == [mnemonic |-> "JMP", requires_arg |-> TRUE]
JN  == [mnemonic |-> "JN",  requires_arg |-> TRUE]
JZ  == [mnemonic |-> "JZ",  requires_arg |-> TRUE]
JNZ == [mnemonic |-> "JNZ", requires_arg |-> TRUE]
IN_ == [mnemonic |-> "IN",  requires_arg |-> TRUE]
OUT == [mnemonic |-> "OUT", requires_arg |-> FALSE]
LDI == [mnemonic |-> "LDI", requires_arg |-> TRUE]
HLT == [mnemonic |-> "HLT", requires_arg |-> FALSE]

\* the arm of get_operator no byte reaches: panic!("Unknow OpCode: ...")
UnknownOpCode == [mnemonic |-> "PANIC", requires_arg |-> FALSE]

\* (operator.run)(state, argument)
Run(op, s, argument) ==
    CASE op.mnemonic = "NOP" -> RunNOP(s, argument)
      [] op.mnemonic = "STA" -> RunSTA(s, argument)
      [] op.mnemonic = "LDA" -> RunLDA(s, argument)
      [] op.mnemonic = "ADD" -> RunADD(s, argument)
      [] op.mnemonic = "OR"  -> RunOR(s, argument)
      [] op.mnemonic = "AND" -> RunAND(s, argument)
      [] op.mnemonic = "NOT" -> RunNOT(s, argument)
      [] op.mnemonic = "SUB" -> RunSUB(s, argument)
      [] op.mnemonic = "JMP" -> RunJMP(s, argument)
      [] op.mnemonic = "JN"  -> RunJN(s, argument)
      [] op.mnemonic = "JZ"  -> RunJZ(s, argument)
      [] op.mnemonic = "JNZ" -> RunJNZ(s, argument)
      [] op.mnemonic = "IN"  -> RunIN(s, argument)
      [] op.mnemonic = "OUT" -> RunOUT(s, argument)
      [] op.mnemonic = "LDI" -> RunLDI(s, argument)
      [] op.mnemonic = "HLT" -> RunHLT(s, argument)
      [] OTHER -> Panic("Unknow OpCode")

\* the sixteen descriptors in opcode order
OperatorTable ==
    << NOP, STA, LDA, ADD, OR, AND, NOT, SUB, JMP, JN, JZ, JNZ, IN_, OUT, LDI, HLT >>

\* fault variant of get_operator: every range ends one byte early (0x00 ... 0x0E, ...)
get_operator_shifted(code) == OperatorTable[((code + 1) % 256) \div 16 + 1]

\* match code { 0x00 ... 0x0F => NOP, ..., 0xF0 ... 0xFF => HLT, opcode => panic!(..) }
get_operator(code) ==
    IF      code >= 0   /\ code <= 15  THEN NOP
    ELSE IF code >= 16  /\ code <= 31  THEN STA
    ELSE IF code >= 32  /\ code <= 47  THEN LDA
    ELSE IF code >= 48  /\ code <= 63  THEN ADD
    ELSE IF code >= 64  /\ code <= 79  THEN OR
    ELSE IF code >= 80  /\ code <= 95  THEN AND
    ELSE IF code >= 96  /\ code <= 111 THEN NOT
    ELSE IF code >= 112 /\ code <= 127 THEN SUB
    ELSE IF code >= 128 /\ code <= 143 THEN JMP
    ELSE IF code >= 144 /\ code <= 159 THEN JN
    ELSE IF code >= 160 /\ code <= 175 THEN JZ
    ELSE IF code >= 176 /\ code <= 191 THEN JNZ
    ELSE IF code >= 192 /\ code <= 207 THEN IN_
    ELSE IF code >= 208 /\ code <= 223 THEN OUT
    ELSE IF code >= 224 /\ code <= 239 THEN LDI
    ELSE IF code >= 240 /\ code <= 255 THEN HLT
    ELSE UnknownOpCode

----------------------------------------------------------------------------
(* Construction: State::new(&[u8]) *)

\* what construction yields for a program that does not fit in memory: no State
Rejected == [rejected |-> TRUE]

IsRejected(s) == "rejected" \in DOMAIN s

\* fault variant of New: a program that does not fit is cut to the memory size
New_truncate(bytes, ports) ==
    [pc     |-> 0,
     ac     |-> 0,
     memory |-> [i \in 0 .. MemSize - 1 |->
                    IF i < Len(bytes) THEN bytes[i + 1] ELSE 0],
     inputs |-> ports,
     output |-> [i \in 0 .. OutputSize - 1 |-> 0],
     halt   |-> FALSE]

\* program bytes from address 0, the remaining cells zero, registers zero, not halted;
\* a program longer than memory is rejected
New(bytes, ports) ==
    IF Len(bytes) > MemSize
    THEN Rejected
    ELSE [pc     |-> 0,
          ac     |-> 0,
          memory |-> [i \in 0 .. MemSize - 1 |->
                         IF i < Len(bytes) THEN bytes[i + 1] ELSE 0],
          inputs |-> ports,
          output |-> [i \in 0 .. OutputSize - 1 |-> 0],
          halt   |-> FALSE]

----------------------------------------------------------------------------
(* Program images *)

\* the program main builds
MainProgram ==
    << 0,   32,  10,  16,  17,  48,  17,  64,
       0,   80,  17,  96,  112, 17,  128, 18,
       255, 0,   144, 21,  255, 0,   160, 0,
       176, 28,  255, 0,   192, 0,   208, 255 >>

\* LDA 3; ADD 3; HLT; 7
ProgLdaAdd == << 32, 3, 48, 3, 240, 7 >>

\* LDI 5; OUT; HLT
ProgLdiOut == << 224, 5, 208, 240 >>

\* no program bytes: memory is NOP everywhere
ProgEmpty == << >>

\* JMP 0
ProgJmpLoop == << 128, 0 >>

\* LDI 45; OUT; SUB 8; JNZ 2; HLT; 1 -- emits 45, 44, ..., 1
ProgCountdown == << 224, 45, 208, 112, 8, 176, 2, 240, 1 >>

\* LDI 9; STA 5; LDA 0; STA 8; NOP; 240 -- the first store rewrites the argument byte
\* of the LDA that follows it (LDA 9), the second one rewrites the NOP at address 8
\* into the HLT that the LDA loaded
ProgSelfModify == << 224, 9, 16, 5, 32, 0, 16, 8, 0, 240 >>

\* LDI 224; STA 255; JMP 255 -- puts an LDI opcode in the last cell and jumps to it
ProgStoreJump == << 224, 224, 16, 255, 128, 255 >>

\* IN 7; HLT -- reads a port the machine does not have
ProgBadPort == << 192, 7, 240 >>

\* a program that fills memory exactly: NOP in every cell but the last, a HLT
ProgFull == [i \in 1 .. MemSize |-> IF i = MemSize THEN 240 ELSE 0]

\* a program one byte longer than memory
ProgTooLong == [i \in 1 .. MemSize + 1 |-> 240]

BasePrograms ==
    { MainProgram, ProgLdaAdd, ProgLdiOut, ProgEmpty, ProgJmpLoop, ProgCountdown,
      ProgSelfModify, ProgStoreJump, ProgBadPort }

\* the values an input port is given
InputValues == { 0, 200 }

Ports == [0 .. InputsLen - 1 -> InputValues]

ZeroPorts == { [i \in 0 .. InputsLen - 1 |-> 0] }

\* every value of port 0, the port main's program reads, with the other ports drawn
\* from InputValues
AllPortZeroValues ==
    { [p EXCEPT ![0] = v] : p \in Ports, v \in Byte }

\* LDI a; <opcode b> arg; HLT; HLT; HLT -- one image per opcode byte, so that every
\* byte is fetched as an opcode; arg is port 1 for IN and address 5 otherwise
DecodeProgram(a, b) ==
    << 224, a, b, IF b \div 16 = 12 THEN 1 ELSE 5, 240, 240, 240 >>

DecodePrograms == { DecodeProgram(a, b) : a \in { 0, 77 }, b \in Byte }

\* LDI a; <JN | JZ | JNZ> 6; HLT; HLT; HLT -- a conditional jump under every accumulator
BranchPrograms == { << 224, a, j, 6, 240, 240, 240 >> : a \in Byte, j \in { 144, 160, 176 } }

\* LDI a; NOT; NOT; HLT -- two complements of every accumulator value
NotPrograms == { << 224, a, 96, 96, 240 >> : a \in Byte }

\* accumulator and memory values around the ends of the u8 range
ArithValues == { 0, 1, 5, 10, 127, 128, 246, 250, 255 }

\* LDI a; <ADD | SUB> 5; HLT; m
ArithPrograms ==
    { << 224, a, op, 5, 240, m >> : a \in ArithValues, m \in ArithValues, op \in { 48, 112 } }

----------------------------------------------------------------------------
(* The driver: let state = State::new(..); state.start() *)

InitWith(programs, ports) ==
    /\ program \in programs
    /\ overflow_checks \in BOOLEAN
    /\ given_inputs \in ports
    /\ state = New(program, given_inputs)
    /\ ctl = IF IsRejected(state) THEN "rejected" ELSE "running"
    /\ panic = ""
    /\ runs = 1
    /\ last = [op |-> "none", opcode |-> 0, arg |-> 0, from |-> state,
               op2 |-> "none", from2 |-> state]
    /\ steps = 0
    /\ emitted = << >>

Init == InitWith(BasePrograms, Ports)

\* the history of emitted values, the newest MaxTrace of them
Emit(trace, v) ==
    LET all == Append(trace, v)
    IN  IF Len(all) > MaxTrace THEN Tail(all) ELSE all

\* the loop is not halted and the opcode at memory[pc] decodes to op
Fetches(op) ==
    /\ ctl = "running"
    /\ ~state.halt
    /\ state.pc < MemSize
    /\ get_operator(state.memory[state.pc]) = op

\* the rest of the iteration: read the argument byte, apply op.run, replace the state
Exec(op) ==
    /\ op.requires_arg => state.pc + 1 < MemSize
    /\ LET argument == IF op.requires_arg THEN state.memory[state.pc + 1] ELSE 0
           next == Run(op, state, argument)
       IN  IF IsPanic(next)
           THEN /\ ctl' = "panicked"
                /\ panic' = next.panic
                /\ UNCHANGED <<state, last, steps, emitted>>
           ELSE /\ state' = next
                /\ last' = [op |-> op.mnemonic, opcode |-> state.memory[state.pc],
                            arg |-> argument, from |-> state,
                            op2 |-> last.op, from2 |-> last.from]
                /\ steps' = IF steps < MaxSteps THEN steps + 1 ELSE steps
                /\ emitted' = IF op.mnemonic = "OUT"
                              THEN Emit(emitted, state.ac) ELSE emitted
                /\ UNCHANGED <<ctl, panic>>
    /\ UNCHANGED <<program, given_inputs, overflow_checks, runs>>

StepNOP ==
    /\ Fetches(NOP)
    /\ Exec(NOP)
StepSTA ==
    /\ Fetches(STA)
    /\ Exec(STA)
StepLDA ==
    /\ Fetches(LDA)
    /\ Exec(LDA)
StepADD ==
    /\ Fetches(ADD)
    /\ Exec(ADD)
StepOR ==
    /\ Fetches(OR)
    /\ Exec(OR)
StepAND ==
    /\ Fetches(AND)
    /\ Exec(AND)
StepNOT ==
    /\ Fetches(NOT)
    /\ Exec(NOT)
StepSUB ==
    /\ Fetches(SUB)
    /\ Exec(SUB)
StepJMP ==
    /\ Fetches(JMP)
    /\ Exec(JMP)
StepJN ==
    /\ Fetches(JN)
    /\ Exec(JN)
StepJZ ==
    /\ Fetches(JZ)
    /\ Exec(JZ)
StepJNZ ==
    /\ Fetches(JNZ)
    /\ Exec(JNZ)
StepIN ==
    /\ Fetches(IN_)
    /\ Exec(IN_)
StepOUT ==
    /\ Fetches(OUT)
    /\ Exec(OUT)
StepLDI ==
    /\ Fetches(LDI)
    /\ Exec(LDI)
StepHLT ==
    /\ Fetches(HLT)
    /\ Exec(HLT)

\* an iteration that panics before any transition is applied: the opcode at pc or
\* the argument at pc + 1 is outside the memory array, or get_operator's last arm
LoopPanic ==
    /\ ctl = "running"
    /\ ~state.halt
    /\ \/ state.pc >= MemSize
       \/ /\ state.pc = MemSize - 1
          /\ get_operator(state.memory[state.pc]).requires_arg
       \/ /\ state.pc < MemSize
          /\ get_operator(state.memory[state.pc]) = UnknownOpCode
    /\ ctl' = "panicked"
    /\ panic' = IF state.pc < MemSize /\ get_operator(state.memory[state.pc]) = UnknownOpCode
                THEN "Unknow OpCode" ELSE "index out of bounds"
    /\ UNCHANGED <<state, program, given_inputs, overflow_checks, runs, last, steps, emitted>>

\* the loop observes halt and start() returns the state
Return ==
    /\ ctl = "running"
    /\ state.halt
    /\ ctl' = "returned"
    /\ UNCHANGED <<state, program, given_inputs, overflow_checks, panic, runs, last, steps, emitted>>

\* start() is called again on the state it returned
StartAgain ==
    /\ ctl = "returned"
    /\ runs < MaxRuns
    /\ ctl' = "running"
    /\ runs' = runs + 1
    /\ UNCHANGED <<state, program, given_inputs, overflow_checks, panic, last, steps, emitted>>

Next ==
    \/ StepNOP \/ StepSTA \/ StepLDA \/ StepADD
    \/ StepOR  \/ StepAND \/ StepNOT \/ StepSUB
    \/ StepJMP \/ StepJN  \/ StepJZ  \/ StepJNZ
    \/ StepIN  \/ StepOUT \/ StepLDI \/ StepHLT
    \/ LoopPanic \/ Return \/ StartAgain

Spec == Init /\ [][Next]_vars

\* the loop is sequential code: it keeps iterating while it can
FairSpec == Spec /\ WF_vars(Next)

\* the same machine, started from the base images and from the instruction families
InitOps ==
    \/ InitWith(BasePrograms, Ports)
    \/ InitWith(DecodePrograms \cup BranchPrograms \cup ArithPrograms \cup NotPrograms,
                ZeroPorts)

SpecOps == InitOps /\ [][Next]_vars

\* main's program under every value of the port it reads, beside the base images
InitMain ==
    \/ InitWith(BasePrograms, Ports)
    \/ InitWith({ MainProgram }, AllPortZeroValues)

SpecMain == InitMain /\ [][Next]_vars /\ WF_vars(Next)

\* the machine constructed from programs of every kind of length: empty, shorter
\* than memory, exactly as long, and one byte too long
InitNew == InitWith(BasePrograms \cup { ProgFull, ProgTooLong }, Ports)

SpecNew == InitNew /\ [][Next]_vars

----------------------------------------------------------------------------
(* Properties *)

Mnemonics == { OperatorTable[k].mnemonic : k \in 1 .. 16 }

\* the instruction kind the high nibble n selects
KindOfNibble(n) ==
    << "NOP", "STA", "LDA", "ADD", "OR", "AND", "NOT", "SUB",
       "JMP", "JN", "JZ", "JNZ", "IN", "OUT", "LDI", "HLT" >>[n + 1]

\* C1: every opcode byte the loop fetches decodes to exactly one of the sixteen
\* kinds, the one its high nibble (opcode div 16) selects whatever its low nibble,
\* and the run never ends in get_operator's "Unknow OpCode" panic.
DecodeByHighNibble ==
    /\ panic # "Unknow OpCode"
    /\ last.op # "none" =>
          /\ last.op \in Mnemonics
          /\ last.op = KindOfNibble(last.opcode \div 16)
          /\ get_operator(last.opcode).mnemonic = last.op
    /\ (ctl = "running" /\ state.pc < MemSize) =>
          get_operator(state.memory[state.pc]).mnemonic
              = KindOfNibble(state.memory[state.pc] \div 16)

\* a byte with a nonzero low nibble, 0x9F, has been fetched and executed as JN
DecodeWitness == last.op = "JN" /\ last.opcode = 159

\* C2 as stated: LDA 3; ADD 3; HLT run to the halt leaves accumulator = 14.
LdaAddYields14 ==
    (program = ProgLdaAdd /\ ctl = "returned") => (state.halt /\ state.ac = 14)

\* C2 amended: LDA 3; ADD 3; HLT loaded at address 0 halts with accumulator = 6:
\* memory[3] holds 0x03, the argument byte of the ADD, so 3 + 3 is computed.
LdaAddYields6 ==
    /\ (program = ProgLdaAdd /\ steps = 0) => state.memory[3] = 3
    /\ (program = ProgLdaAdd /\ ctl = "returned") =>
          (state.halt /\ state.ac = 6 /\ steps = 3)
    /\ (program = ProgLdaAdd) => ctl # "panicked"

LdaAddHalted == program = ProgLdaAdd /\ ctl = "returned" /\ last.op = "HLT"

\* C3: LDI 5; OUT; HLT eventually reaches the halted state and the loop returns it,
\* and whenever it has halted, accumulator = 5, output[0] = 5, pc = 4 and exactly
\* three transitions have been applied.
LdiOutRunsToHalt ==
    /\ [](program = ProgLdiOut /\ state.halt =>
            /\ state.ac = 5
            /\ state.output[0] = 5
            /\ state.pc = 4
            /\ steps = 3)
    /\ (program = ProgLdiOut) ~> (state.halt /\ ctl = "returned")

LdiOutHalted ==
    program = ProgLdiOut /\ ctl = "returned" /\ state.halt /\ state.output[0] = 5

\* C4 as stated: at every fetch the machine is halted or pc indexes memory.
PcValidOrHalted ==
    ctl = "running" => (state.halt \/ state.pc \in 0 .. MemSize - 1)

\* C5 as stated: ADD leaves (a + m) mod 256 and SUB leaves (a - m) mod 256 in the
\* accumulator, and neither traps on overflow or underflow.
AddSubWrapNoTrap ==
    /\ last.op = "ADD" =>
          state.ac = (last.from.ac + last.from.memory[last.arg]) % 256
    /\ last.op = "SUB" =>
          state.ac = (last.from.ac - last.from.memory[last.arg]) % 256
    /\ panic \notin { "attempt to add with overflow", "attempt to subtract with overflow" }

\* whether op, run on state s with the jump target as argument, takes its branch
Branches(op, s, target) == Run(op, s, target).pc = target

\* the conditional jumps that branch from the state the last jump was taken in
BranchingJumps ==
    { op \in { JN, JZ, JNZ } : Branches(op, last.from, last.arg) }

\* a conditional jump has just run with a target other than the fall-through address
JumpExecuted ==
    /\ last.op \in { "JN", "JZ", "JNZ" }
    /\ last.arg # last.from.pc + 2

\* C6 as stated: for every accumulator value at most one of JN, JZ, JNZ branches.
JumpsMutuallyExclusive == JumpExecuted => Cardinality(BranchingJumps) <= 1

\* C6 amended: JZ never branches together with JNZ or with JN, and exactly one of
\* JZ and JNZ branches; JN and JNZ both branch whenever the accumulator is >= 64.
\* For accumulator 0 JZ branches and JNZ does not; for 200 JN branches and JZ does not.
JzExcludesJnzAndJn ==
    JumpExecuted =>
      /\ (state.pc = last.arg) <=> (get_operator(last.opcode) \in BranchingJumps)
      /\ ~(JZ \in BranchingJumps /\ JNZ \in BranchingJumps)
      /\ ~(JZ \in BranchingJumps /\ JN \in BranchingJumps)
      /\ JZ \in BranchingJumps \/ JNZ \in BranchingJumps
      /\ last.from.ac >= 64 => { JN, JNZ } \subseteq BranchingJumps
      /\ last.from.ac = 0 => BranchingJumps = { JZ }
      /\ last.from.ac = 200 => (JN \in BranchingJumps /\ JZ \notin BranchingJumps)

\* JN has taken its branch with accumulator 200
JnBranchedAt200 ==
    last.op = "JN" /\ last.from.ac = 200 /\ state.pc = last.arg /\ last.arg # last.from.pc + 2

\* C7: once halted, the state never changes again and no transition is counted;
\* the state the loop returns is the successor of a HLT (halt set, pc one past the
\* HLT opcode), and a second start() on it returns the same state.
HaltIsFinal ==
    /\ [][state.halt => (state' = state /\ steps' = steps /\ last' = last)]_vars
    /\ [](ctl = "returned" =>
            /\ state.halt
            /\ last.op = "HLT"
            /\ state = [last.from EXCEPT !.pc = last.from.pc + 1, !.halt = TRUE]
            /\ get_operator(state.memory[state.pc - 1]) = HLT)

\* start() has been called a second time, on a halted state, and has returned
ReturnedTwice == ctl = "returned" /\ runs = 2 /\ state.halt

\* C8: output is a most-recent-first log of the emitted values: slot i holds the
\* (i + 1)-th newest emitted value for every i below min(n, 40), and 0 beyond.
OutputIsRecentFirstLog ==
    LET n == Len(emitted)
    IN  \A i \in 0 .. OutputSize - 1 :
            state.output[i] = IF i < n THEN emitted[n - i] ELSE 0

\* 41 distinct values (45 down to 5) have been emitted: the history holds the last
\* 40 of them, newest first, and the first one, 45, is gone
FortyOneEmitted ==
    /\ program = ProgCountdown
    /\ Len(emitted) = 41
    /\ emitted[1] = 45
    /\ \A i \in 0 .. OutputSize - 1 : state.output[i] = 5 + i

AccumulatorWriters == { "LDA", "ADD", "OR", "AND", "NOT", "SUB", "IN", "LDI" }

\* C9: a transition changes only the fields of its row: memory only under STA and
\* only at memory[arg]; the accumulator only under LDA, ADD, OR, AND, NOT, SUB, IN,
\* LDI; output only under OUT; halt only under HLT; inputs never; and NOP, JMP, JN,
\* JZ, JNZ nothing but the program counter.
FrameEffects ==
    last.op # "none" =>
      /\ state.memory = IF last.op = "STA"
                        THEN [last.from.memory EXCEPT ![last.arg] = last.from.ac]
                        ELSE last.from.memory
      /\ last.op \notin AccumulatorWriters => state.ac = last.from.ac
      /\ last.op # "OUT" => state.output = last.from.output
      /\ last.op # "HLT" => state.halt = last.from.halt
      /\ state.inputs = last.from.inputs
      /\ last.op \in { "NOP", "JMP", "JN", "JZ", "JNZ" } =>
            state = [last.from EXCEPT !.pc = state.pc]

\* a STA has stored a nonzero accumulator over a different byte
StoreExecuted ==
    /\ last.op = "STA"
    /\ last.from.ac # 0
    /\ last.from.memory[last.arg] # last.from.ac
    /\ state.memory[last.arg] = last.from.ac

\* C10: NOP, NOT, OUT, HLT set pc to pc + 1; STA, LDA, ADD, OR, AND, SUB, IN, LDI
\* set it to pc + 2; JMP sets it to the argument; JN, JZ, JNZ set it to the
\* argument when their condition holds and to pc + 2 otherwise; requires_arg is
\* true exactly for the kinds that consume an argument byte.
PcUpdates ==
    last.op # "none" =>
      /\ last.op \in { "NOP", "NOT", "OUT", "HLT" } => state.pc = last.from.pc + 1
      /\ last.op \in { "STA", "LDA", "ADD", "OR", "AND", "SUB", "IN", "LDI" } =>
            state.pc = last.from.pc + 2
      /\ last.op = "JMP" => state.pc = last.arg
      /\ last.op = "JN" =>
            state.pc = IF last.from.ac >= 64 THEN last.arg ELSE last.from.pc + 2
      /\ last.op = "JZ" =>
            state.pc = IF last.from.ac = 0 THEN last.arg ELSE last.from.pc + 2
      /\ last.op = "JNZ" =>
            state.pc = IF last.from.ac # 0 THEN last.arg ELSE last.from.pc + 2
      /\ get_operator(last.opcode).requires_arg
            <=> last.op \notin { "NOP", "NOT", "OUT", "HLT" }

\* a HLT has halted the machine and still advanced the program counter
HltAdvanced == last.op = "HLT" /\ state.halt /\ state.pc = last.from.pc + 1

\* the next fetch needs a cell outside memory: the opcode at pc, or the argument
\* byte at pc + 1 of an instruction that requires one
FetchOutside ==
    /\ ctl = "running"
    /\ ~state.halt
    /\ IF state.pc >= MemSize THEN TRUE
       ELSE /\ state.pc + 1 >= MemSize
            /\ get_operator(state.memory[state.pc]).requires_arg

SequentialKinds ==
    { "NOP", "NOT", "OUT", "HLT", "STA", "LDA", "ADD", "OR", "AND", "SUB", "IN", "LDI" }

\* C11: a fetch outside memory ends the run in a fault, not a halt: the step applies
\* no transition and leaves the last valid state in place, the faulted run is not
\* halted and never returns, and no sequential instruction wraps the program
\* counter back to a lower address.
FetchFaultAborts ==
    /\ [][FetchOutside =>
            /\ ctl' = "panicked"
            /\ panic' = "index out of bounds"
            /\ state' = state
            /\ last' = last
            /\ steps' = steps]_vars
    /\ [][ctl = "panicked" => (ctl' = "panicked" /\ state' = state)]_vars
    /\ [](ctl = "panicked" => ~state.halt)
    /\ [](last.op \in SequentialKinds => state.pc > last.from.pc)

\* the run has faulted on the argument fetch of the LDI in the last memory cell
ArgumentFetchFaulted ==
    /\ ctl = "panicked"
    /\ panic = "index out of bounds"
    /\ state.pc = MemSize - 1
    /\ get_operator(state.memory[state.pc]) = LDI
    /\ last.op = "JMP"

\* C12: JN sets pc to its argument exactly when the accumulator is >= 64 and to
\* pc + 2 otherwise; so it branches for 64..127, where bit 7 is clear.
JnThreshold ==
    last.op = "JN" =>
      /\ last.from.ac >= 64 => state.pc = last.arg
      /\ last.from.ac < 64 => state.pc = last.from.pc + 2
      /\ (last.from.ac \in 64 .. 127 /\ last.arg # last.from.pc + 2) =>
            state.pc # last.from.pc + 2

\* JN has branched with accumulator 100, which is below the sign-bit threshold 128
JnBranchedAt100 ==
    /\ last.op = "JN"
    /\ last.from.ac = 100
    /\ state.pc = last.arg
    /\ last.arg # last.from.pc + 2

\* C13: two consecutive NOT transitions restore the accumulator (the first one
\* leaves 255 - a), advance pc by 2 in total and change no other field.
NotIsInvolutive ==
    /\ last.op = "NOT" => state.ac = 255 - last.from.ac
    /\ (last.op = "NOT" /\ last.op2 = "NOT") =>
          /\ state.ac = last.from2.ac
          /\ state = [last.from2 EXCEPT !.pc = last.from2.pc + 2]

\* NOT has been applied twice to accumulator 200, which has bit 7 set
NotAppliedTwice ==
    /\ last.op = "NOT"
    /\ last.op2 = "NOT"
    /\ last.from2.ac = 200
    /\ last.from.ac = 55
    /\ state.ac = 200

\* C14: the input ports are those supplied at construction in every state, and IN
\* only copies inputs[port] into the accumulator.
InputsNeverWritten ==
    /\ state.inputs = given_inputs
    /\ last.op = "IN" =>
          /\ state.ac = given_inputs[last.arg]
          /\ state = [last.from EXCEPT !.pc = last.from.pc + 2,
                                       !.ac = last.from.inputs[last.arg]]

\* IN has read the nonzero value 200 from port 0 and the port still holds it
InputRead ==
    /\ last.op = "IN"
    /\ last.arg = 0
    /\ state.ac = 200
    /\ state.inputs[0] = 200

\* C15: construction from at most 256 bytes yields pc = 0, accumulator = 0, not
\* halted, an all-zero output history, and memory holding the program from address
\* 0 with zeros after it; construction from more than 256 bytes is rejected and no
\* instruction is ever executed.
ConstructionContract ==
    /\ Len(program) <= MemSize =>
          /\ ctl # "rejected"
          /\ ~IsRejected(state)
          /\ steps = 0 =>
                /\ state.pc = 0
                /\ state.ac = 0
                /\ state.halt = FALSE
                /\ DOMAIN state.memory = 0 .. 255
                /\ \A i \in 0 .. 255 :
                      state.memory[i] = IF i < Len(program) THEN program[i + 1] ELSE 0
                /\ \A i \in 0 .. OutputSize - 1 : state.output[i] = 0
    /\ Len(program) > MemSize =>
          /\ ctl = "rejected"
          /\ IsRejected(state)
          /\ steps = 0
          /\ last.op = "none"

\* a 257-byte program has been rejected
LongProgramRejected == Len(program) = MemSize + 1 /\ ctl = "rejected"

\* the address the transition before the last one took as its argument
PreviousArgument == last.from2.memory[last.from2.pc + 1]

\* C16: every fetch reads the current memory: the opcode and the argument byte of a
\* step are the bytes memory held when it was fetched, so a byte a STA has just
\* stored at the fetched address is the one decoded or used as argument, not the
\* byte of the program image.
StoresVisibleToFetch ==
    /\ last.op # "none" =>
          /\ last.opcode = last.from.memory[last.from.pc]
          /\ last.op = get_operator(last.opcode).mnemonic
          /\ get_operator(last.opcode).requires_arg =>
                last.arg = last.from.memory[last.from.pc + 1]
    /\ (last.op # "none" /\ last.op2 = "STA") =>
          /\ PreviousArgument = last.from.pc => last.opcode = last.from2.ac
          /\ (PreviousArgument = last.from.pc + 1
                /\ get_operator(last.opcode).requires_arg) => last.arg = last.from2.ac
    /\ (program = ProgSelfModify /\ steps = 3) =>
          (last.op = "LDA" /\ last.arg = 9 /\ state.ac = 240)
    /\ (program = ProgSelfModify /\ steps = 5) =>
          (last.op = "HLT" /\ last.opcode = 240 /\ state.pc = 9)
    /\ (program = ProgSelfModify /\ ctl = "returned") => steps = 5

\* the cell at address 8, a NOP in the program image, has been executed as the HLT
\* a STA stored there
StoredOpcodeExecuted ==
    /\ program = ProgSelfModify
    /\ program[9] = 0
    /\ last.op2 = "STA"
    /\ last.op = "HLT"
    /\ last.from.pc = 8
    /\ ctl = "returned"

\* C17: the run of [0x80, 0x00] (JMP 0) never halts, never faults and never
\* returns: in every state it reaches the loop is running at pc = 0 with the JMP
\* iteration enabled again, so halted is never reached.
JmpLoopNeverHalts ==
    program = ProgJmpLoop =>
      /\ ctl = "running"
      /\ ~state.halt
      /\ state.pc = 0
      /\ state.memory = New(ProgJmpLoop, given_inputs).memory
      /\ ENABLED StepJMP

\* JMP 0 has been executed a hundred times and the machine is back at pc = 0
JmpLoopRevisited ==
    /\ program = ProgJmpLoop
    /\ steps = 100
    /\ last.op = "JMP"
    /\ last.from.pc = 0
    /\ state.pc = 0

\* C18: main's program terminates whatever the input ports hold: it never panics,
\* never overflows an ADD or underflows a SUB, never reaches the HLT bytes at 16,
\* 20 and 26, and halts on the HLT at address 31 after 16 instructions with
\* pc = 32, memory[17] = 0x11 and accumulator = output[0] = inputs[0].
MainProgramHalts ==
    /\ [](program = MainProgram =>
            /\ ctl # "panicked"
            /\ state.pc \notin { 16, 20, 26 }
            /\ last.op = "HLT" => last.from.pc = 31
            /\ last.op = "ADD" => last.from.ac + last.from.memory[last.arg] <= 255
            /\ last.op = "SUB" => last.from.ac >= last.from.memory[last.arg]
            /\ state.halt =>
                  /\ steps = 16
                  /\ state.pc = 32
                  /\ state.memory[17] = 17
                  /\ state.ac = given_inputs[0]
                  /\ state.output[0] = given_inputs[0])
    /\ (program = MainProgram) ~> (ctl = "returned" /\ state.halt)

\* main's program has returned with port 0 = 255 in the accumulator, in a build
\* with overflow checks
MainProgramReturned ==
    /\ program = MainProgram
    /\ ctl = "returned"
    /\ overflow_checks
    /\ given_inputs[0] = 255
    /\ state.ac = 255
    /\ steps = 16

MemoryKinds == { "STA", "LDA", "ADD", "OR", "AND", "SUB" }

\* C19: STA, LDA, ADD, OR, AND and SUB never address memory out of bounds: every
\* argument and every memory cell is a byte and memory has a cell for every byte,
\* so an index-out-of-bounds panic comes only from the opcode fetch at pc, the
\* argument fetch at pc + 1 (or from IN's port index, which is not a memory
\* access); and pc leaves 0..255 only by advancing 1 or 2 from an address in
\* memory, never by a jump that is taken.
MemoryOperandsInBounds ==
    /\ ~IsRejected(state) =>
          /\ DOMAIN state.memory = 0 .. MemSize - 1
          /\ \A i \in 0 .. MemSize - 1 : state.memory[i] \in Byte
          /\ state.ac \in Byte
    /\ last.op \in MemoryKinds =>
          /\ last.arg \in DOMAIN last.from.memory
          /\ last.arg \in DOMAIN state.memory
    /\ panic = "index out of bounds" =>
          \/ state.pc >= MemSize
          \/ /\ state.pc = MemSize - 1
             /\ get_operator(state.memory[state.pc]).requires_arg
          \/ /\ get_operator(state.memory[state.pc]) = IN_
             /\ state.memory[state.pc + 1] >= InputsLen
    /\ (~IsRejected(state) /\ state.pc >= MemSize) =>
          /\ last.from.pc < MemSize
          /\ state.pc \in { last.from.pc + 1, last.from.pc + 2 }
          /\ last.op # "JMP"
          /\ last.op \in { "JN", "JZ", "JNZ" } => state.pc # last.arg

\* a STA has written the last memory cell, address 255, without a fault
LastCellStored ==
    /\ last.op = "STA"
    /\ last.arg = MemSize - 1
    /\ state.memory[MemSize - 1] = last.from.ac
    /\ last.from.ac # 0
    /\ ctl = "running"

====
